---- MODULE Spec2Model ----
(***************************************************************************)
(* Model of the platformer runtime of derungo/rust-platformer:             *)
(* engine/input.rs (InputHandler), engine/game_state.rs (GameState) and    *)
(* the event dispatch and the frame functions of game_loop.rs.             *)
(*                                                                         *)
(* The f32 quantities are kept as exact fixed-point integers:              *)
(*   time      1 unit = 1/20 s    (animation_speed 0.1 s   = 2)            *)
(*   velocity  1 unit = 0.01 /s   (jump_force 5.0 = 500, speed 1.0 = 100)  *)
(*   position  1 unit = 1/2000    (ground_y -0.5 = -1000)                  *)
(* so that velocity * time is a position and gravity (-9.8 /s^2) adds      *)
(* -49 velocity units per time unit.                                       *)
(*                                                                         *)
(* player_x is written by GameState::update (player_x += vx * dt) and read *)
(* by nothing in it; it is left out of the state, player_velocity_x is     *)
(* kept.                                                                   *)
(***************************************************************************)
EXTENDS Integers, FiniteSets, Sequences, TLC

VARIABLES
    keys_pressed,        \* InputHandler.keys_pressed
    player_y,            \* GameState fields
    player_velocity_x,
    player_velocity_y,
    is_jumping,
    is_crouching,
    is_running,
    is_kicking,
    facing_right,
    sprite_index,
    frame_time,
    current_action,
    hold_time,           \* history: time delivered to the updates of the
                         \* walk scenario
    kick_finished,       \* history: the kick clip completed in an update
                         \* and "E" has been held ever since
    last_event,          \* history: per key code, its most recent event
    pc,                  \* position in the MainEventsCleared handler
    renderer,            \* Renderer: background_textures,
                         \* background_bind_groups (their numbers),
                         \* tileset_columns, tileset_rows
    instance_buffer,     \* Renderer.instance_buffer, 32-bit words
    tile_map,            \* TileMap.tiles
    background_instances,\* run: background_instances
    tile_instances,      \* the lists prepare_instances returned
    player_instances,
    writes,              \* the write_buffer calls of the last packing
    draws,               \* the draw calls of the last render pass
    frame_result,        \* how the last render_frame ended
    panicked,            \* the process panicked
    stderr,              \* diagnostics printed on standard error
    composed_from,       \* history: the inputs of the last composition
    frame_log,           \* history: the functions the current frame has run
    TEXTURE_CACHE,       \* texture.rs: the map of the global cache
    cache_lock,          \* its Mutex: the holder, and whether it is poisoned
    loads,               \* the load_texture call of each thread
    decoded,             \* history: image::open calls, per path
    uploaded,            \* history: create_texture + write_texture, per path
    load_calls           \* history: the load_texture calls made so far

vars == <<keys_pressed, player_y, player_velocity_x,
          player_velocity_y, is_jumping, is_crouching, is_running,
          is_kicking, facing_right, sprite_index, frame_time,
          current_action, hold_time, kick_finished, last_event, pc,
          renderer, instance_buffer, tile_map, background_instances,
          tile_instances, player_instances, writes, draws, frame_result,
          panicked, stderr, composed_from, frame_log, TEXTURE_CACHE,
          cache_lock, loads, decoded, uploaded, load_calls>>

gs_vars == <<player_y, player_velocity_x, player_velocity_y,
             is_jumping, is_crouching, is_running, is_kicking, facing_right,
             sprite_index, frame_time, current_action>>

\* what the frame functions after update work on
frame_vars == <<pc, renderer, instance_buffer, tile_map,
                background_instances, tile_instances, player_instances,
                writes, draws, frame_result, composed_from,
                frame_log>>

\* the process, as its environment sees it
process_vars == <<panicked, stderr>>

\* the texture cache and the calls of load_texture
cache_vars == <<TEXTURE_CACHE, cache_lock, loads, decoded, uploaded,
                load_calls>>

----------------------------------------------------------------------------
(* Bounds of the model *)

\* largest delta_time of one update, in time units (5 = 0.25 s)
MaxDt == 5

\* longest hold of the walk scenario, in time units
MaxHold == 24

\* the delta_time values of an update: none, half a tick, MaxDt
DtSet == {0, 1, MaxDt}

\* most background layers of a renderer
MaxBackgrounds == 2

\* most tiles of a tile map
MaxTiles == 2

----------------------------------------------------------------------------
(* Program constants *)

SPRITE_HEIGHT == 600

GROUND_LEVEL == -1400

player_speed == 100

gravity == -49

jump_force == 500

ground_y == -1000

animation_speed == 2

\* the keys GameState::update queries
KeyCodes == {"A", "D", "LShift", "S", "E", "Space"}

\* KeyboardInput.virtual_keycode is an Option
NoKey == "None"

\* a key code GameState::update never queries
OtherKey == "W"

AllKeys == KeyCodes \cup {OtherKey}

\* GameState::new: the clip table  action -> (start_frame, end_frame)
actions == [a \in {"idle", "walk", "kick", "hurt", "run", "jump",
                   "crouch_walk", "crouch_idle"} |->
              CASE a = "idle"        -> <<0, 0>>
                [] a = "walk"        -> <<1, 10>>
                [] a = "kick"        -> <<11, 13>>
                [] a = "hurt"        -> <<14, 16>>
                [] a = "run"         -> <<17, 23>>
                [] a = "jump"        -> <<6, 8>>
                [] a = "crouch_walk" -> <<19, 23>>
                [] a = "crouch_idle" -> <<18, 18>>]

start_frame(a) == actions[a][1]

end_frame(a) == actions[a][2]

----------------------------------------------------------------------------
(* InputHandler *)

is_key_pressed(key) == key \in keys_pressed

\* Mutant of KeyboardInput: a press toggles the key, so a repeated press
\* releases it
KeyboardInput_toggle(key, pressed) ==
    /\ keys_pressed' = IF key = NoKey THEN keys_pressed
                       ELSE IF pressed /\ key \notin keys_pressed
                            THEN keys_pressed \cup {key}
                            ELSE keys_pressed \ {key}
    /\ UNCHANGED gs_vars

\* InputHandler::update, reached from handle_window_event
KeyboardInput(key, pressed) ==
    /\ keys_pressed' = IF key = NoKey THEN keys_pressed
                       ELSE IF pressed THEN keys_pressed \cup {key}
                       ELSE keys_pressed \ {key}
    /\ UNCHANGED gs_vars

----------------------------------------------------------------------------
(* GameState *)

\* Mutant of jump_starts: the airborne test is missing
jump_starts_airborne(space, jumping, crouching) == space /\ ~crouching

\* GameState::update, the jump test (Space, not airborne, not crouching)
jump_starts(space, jumping, crouching) == space /\ ~jumping /\ ~crouching

\* Mutant of on_ground: touching the ground is not landing
on_ground_strict(y) == y < ground_y

\* GameState::update, the ground test on the integrated position
on_ground(y) == y <= ground_y

\* Mutant of kick_flag: a kick, once started, stays requested until the
\* clip completes
kick_flag_latched(pressed, kicking) == pressed \/ kicking

\* GameState::update: is_kicking is overwritten with the state of the E
\* key, whatever it was
kick_flag(pressed, kicking) == pressed

\* Mutant of facing: the A test comes last, so left wins when both are held
facing_left_wins(left, right, facing) ==
    IF left THEN FALSE ELSE IF right THEN TRUE ELSE facing

\* GameState::update, the two movement tests: A sets facing_right false,
\* then D sets it true; neither leaves it
facing(left, right, facing_before) ==
    LET after_left == IF left THEN FALSE ELSE facing_before
    IN  IF right THEN TRUE ELSE after_left

\* Mutant of ResolveAction: jump is tested before kick
ResolveAction_jump_first(kicking, jumping, crouching, moving, running) ==
    IF jumping THEN "jump"
    ELSE IF kicking THEN "kick"
    ELSE IF crouching THEN (IF moving THEN "crouch_walk" ELSE "crouch_idle")
    ELSE IF moving THEN (IF running THEN "run" ELSE "walk")
    ELSE "idle"

\* Mutant of ResolveAction: a crouch key in mid-air requests hurt
ResolveAction_hurt(kicking, jumping, crouching, moving, running) ==
    IF kicking THEN "kick"
    ELSE IF jumping THEN (IF crouching THEN "hurt" ELSE "jump")
    ELSE IF crouching THEN (IF moving THEN "crouch_walk" ELSE "crouch_idle")
    ELSE IF moving THEN (IF running THEN "run" ELSE "walk")
    ELSE "idle"

\* Mutant of ResolveAction: crouch is tested before jump
ResolveAction_crouch_first(kicking, jumping, crouching, moving, running) ==
    IF kicking THEN "kick"
    ELSE IF crouching THEN (IF moving THEN "crouch_walk" ELSE "crouch_idle")
    ELSE IF jumping THEN "jump"
    ELSE IF moving THEN (IF running THEN "run" ELSE "walk")
    ELSE "idle"

\* GameState::update, the if/else chain choosing the action to set
ResolveAction(kicking, jumping, crouching, moving, running) ==
    IF kicking THEN "kick"
    ELSE IF jumping THEN "jump"
    ELSE IF crouching THEN (IF moving THEN "crouch_walk" ELSE "crouch_idle")
    ELSE IF moving THEN (IF running THEN "run" ELSE "walk")
    ELSE "idle"

\* The animation part of GameState, as the record set_action and
\* update_animation work on.
AnimState(action, index, time, kicking) ==
    [current_action |-> action, sprite_index |-> index,
     frame_time |-> time, is_kicking |-> kicking]

\* Mutant of set_action: the accumulated frame_time survives the change
set_action_keeps_time(st, action) ==
    IF st.current_action # action /\ action \in DOMAIN actions
    THEN [st EXCEPT !.current_action = action,
                    !.sprite_index = actions[action][1]]
    ELSE st

\* Mutant of set_action: the clip restarts although the action is current
set_action_always_resets(st, action) ==
    IF action \in DOMAIN actions
    THEN [st EXCEPT !.current_action = action,
                    !.sprite_index = actions[action][1],
                    !.frame_time = 0]
    ELSE st

\* GameState::set_action
set_action(st, action) ==
    IF st.current_action # action
    THEN IF action \in DOMAIN actions
         THEN [st EXCEPT !.current_action = action,
                         !.sprite_index = start_frame(action),
                         !.frame_time = 0]
         ELSE st                      \* eprintln!, nothing changes
    ELSE st

\* GameState::set_action, the else branch: the requested name is not the
\* current action and not a key of the clip table, and eprintln! reports it
set_action_reports(st, action) ==
    st.current_action # action /\ action \notin DOMAIN actions

\* Mutant of update_animation: a looping clip runs past its end frame
update_animation_no_wrap(st, delta_time) ==
    LET t  == st.frame_time + delta_time
        s0 == [st EXCEPT !.frame_time = t]
        sf == start_frame(st.current_action)
        ef == end_frame(st.current_action)
    IN  IF t >= animation_speed
        THEN LET s1 == IF sf = ef
                       THEN [s0 EXCEPT !.sprite_index = sf]
                       ELSE IF st.sprite_index + 1 > ef
                               /\ st.current_action = "kick"
                            THEN set_action(
                                   [s0 EXCEPT !.sprite_index = st.sprite_index + 1,
                                              !.is_kicking = FALSE],
                                   "idle")
                            ELSE [s0 EXCEPT !.sprite_index = st.sprite_index + 1]
             IN  [s1 EXCEPT !.frame_time = 0]
        ELSE s0

\* Mutant of update_animation: the kick clip loops like the other clips
update_animation_kick_loops(st, delta_time) ==
    LET t  == st.frame_time + delta_time
        s0 == [st EXCEPT !.frame_time = t]
        sf == start_frame(st.current_action)
        ef == end_frame(st.current_action)
    IN  IF t >= animation_speed
        THEN LET s1 == IF sf = ef
                       THEN [s0 EXCEPT !.sprite_index = sf]
                       ELSE IF st.sprite_index + 1 > ef
                            THEN [s0 EXCEPT !.sprite_index = sf]
                            ELSE [s0 EXCEPT !.sprite_index = st.sprite_index + 1]
             IN  [s1 EXCEPT !.frame_time = 0]
        ELSE s0

\* Mutant of update_animation: a tick is subtracted from the accumulator,
\* once, instead of zeroing it
update_animation_keeps_remainder(st, delta_time) ==
    LET t  == st.frame_time + delta_time
        s0 == [st EXCEPT !.frame_time = t]
        sf == start_frame(st.current_action)
        ef == end_frame(st.current_action)
    IN  IF t >= animation_speed
        THEN LET s1 == IF sf = ef
                       THEN [s0 EXCEPT !.sprite_index = sf]
                       ELSE IF st.sprite_index + 1 > ef
                            THEN IF st.current_action = "kick"
                                 THEN set_action(
                                        [s0 EXCEPT !.sprite_index = st.sprite_index + 1,
                                                   !.is_kicking = FALSE],
                                        "idle")
                                 ELSE [s0 EXCEPT !.sprite_index = sf]
                            ELSE [s0 EXCEPT !.sprite_index = st.sprite_index + 1]
             IN  [s1 EXCEPT !.frame_time = t - animation_speed]
        ELSE s0

\* GameState::update_animation
update_animation(st, delta_time) ==
    LET t  == st.frame_time + delta_time
        s0 == [st EXCEPT !.frame_time = t]
        sf == start_frame(st.current_action)
        ef == end_frame(st.current_action)
    IN  IF t >= animation_speed
        THEN LET s1 == IF sf = ef
                       THEN [s0 EXCEPT !.sprite_index = sf]
                       ELSE IF st.sprite_index + 1 > ef
                            THEN IF st.current_action = "kick"
                                 THEN set_action(
                                        [s0 EXCEPT !.sprite_index = st.sprite_index + 1,
                                                   !.is_kicking = FALSE],
                                        "idle")
                                 ELSE [s0 EXCEPT !.sprite_index = sf]
                            ELSE [s0 EXCEPT !.sprite_index = st.sprite_index + 1]
             IN  [s1 EXCEPT !.frame_time = 0]
        ELSE s0

\* GameState::new
InitGameState ==
    /\ player_y = -1000
    /\ player_velocity_x = 0
    /\ player_velocity_y = 0
    /\ is_jumping = FALSE
    /\ is_crouching = FALSE
    /\ is_running = FALSE
    /\ is_kicking = FALSE
    /\ facing_right = TRUE
    /\ sprite_index = 0
    /\ frame_time = 0
    /\ current_action = "idle"

\* GameState::update(input_handler, delta_time), the whole handler
GameStateUpdate(delta_time) ==
    LET running   == is_key_pressed("LShift")
        speed     == IF running THEN (player_speed * 3) \div 2 ELSE player_speed
        left      == is_key_pressed("A")
        right     == is_key_pressed("D")
        vx        == (IF right THEN speed ELSE 0) - (IF left THEN speed ELSE 0)
        is_moving == left \/ right
        crouching == is_key_pressed("S")
        kicking   == kick_flag(is_key_pressed("E"), is_kicking)
        jump      == jump_starts(is_key_pressed("Space"), is_jumping, crouching)
        vy0       == IF jump THEN jump_force ELSE player_velocity_y
        jumping0  == is_jumping \/ jump
        vy1       == vy0 + gravity * delta_time
        y1        == player_y + vy1 * delta_time
        landed    == on_ground(y1)
        jumping1  == jumping0 /\ ~landed
        a0        == AnimState(current_action, sprite_index, frame_time, kicking)
        a1        == set_action(a0, ResolveAction(kicking, jumping1, crouching,
                                                  is_moving, running))
        a2        == update_animation(a1, delta_time)
    IN  /\ is_running' = running
        /\ player_velocity_x' = vx
        /\ facing_right' = facing(left, right, facing_right)
        /\ is_crouching' = crouching
        /\ player_y' = IF landed THEN ground_y ELSE y1
        /\ player_velocity_y' = IF landed THEN 0 ELSE vy1
        /\ is_jumping' = jumping1
        /\ is_kicking' = a2.is_kicking
        /\ current_action' = a2.current_action
        /\ sprite_index' = a2.sprite_index
        /\ frame_time' = a2.frame_time

----------------------------------------------------------------------------
(* game_loop.rs: the event loop *)

\* Event::WindowEvent -> handle_window_event -> InputHandler
WindowEvent ==
    \E key \in KeyCodes \cup {NoKey}, pressed \in BOOLEAN :
        /\ KeyboardInput(key, pressed)
        /\ kick_finished' = (kick_finished /\ ~(key = "E" /\ ~pressed))
        /\ UNCHANGED <<hold_time, last_event, frame_vars, process_vars, cache_vars>>

\* Event::MainEventsCleared -> update_game_state
MainEventsCleared ==
    \E delta_time \in DtSet :
        /\ GameStateUpdate(delta_time)
        /\ kick_finished' = (is_key_pressed("E") /\ ~is_kicking')
        /\ UNCHANGED <<keys_pressed, hold_time, last_event, frame_vars,
                       process_vars, cache_vars>>

\* ---------------------------------------------------------------------
\* texture.rs: the global texture cache
\* ---------------------------------------------------------------------

\* the threads that call load_texture
Threads == {"t1", "t2"}

NoThread == "none"

\* the paths load_texture is called with
Paths == {"player.png", "tileset.png", "missing.png"}

NoImage == <<>>

\* image::open(path): the dimensions of the image file, NoImage where
\* there is no such file
ImageFiles ==
    [path \in Paths |->
        CASE path = "player.png"  -> <<768, 32>>
          [] path = "tileset.png" -> <<256, 96>>
          [] OTHER                -> NoImage]

NoTexture == [texture |-> 0, view |-> 0, sampler |-> 0,
              width |-> 0, height |-> 0]

\* Texture { texture, view, sampler, width, height }: the three Arcs are
\* named by the number of the GPU texture they were created for
Texture(id, dimensions) ==
    [texture |-> id, view |-> id, sampler |-> id,
     width |-> dimensions[1], height |-> dimensions[2]]

\* Texture::clone: the Arcs are cloned, so the clone names the same GPU
\* resources; width and height are copied
clone(texture) == texture

\* the number of GPU textures created so far
RECURSIVE created(_, _)
created(counts, paths) ==
    IF paths = {} THEN 0
    ELSE LET path == CHOOSE q \in paths : TRUE
         IN  counts[path] + created(counts, paths \ {path})

\* the call of a thread that is not in load_texture
NoCall == [pc |-> "idle", path |-> "", texture |-> NoTexture]

\* lazy_static: an empty map behind an unlocked Mutex; no call yet
CacheEmpty ==
    /\ TEXTURE_CACHE = [path \in Paths |-> NoTexture]
    /\ cache_lock = [holder |-> NoThread, poisoned |-> FALSE]
    /\ loads = [t \in Threads |-> NoCall]
    /\ decoded = [path \in Paths |-> 0]
    /\ uploaded = [path \in Paths |-> 0]
    /\ load_calls = 0

\* The frame functions after update_game_state have not run: nothing is
\* composed, packed or drawn.  Spec and SpecWalk follow the input handler
\* and GameState::update alone and leave these variables as they are here;
\* SpecFrame follows the whole handler.
FrameIdle ==
    /\ pc = "events"
    /\ renderer = [background_textures |-> 0, background_bind_groups |-> 0,
                   tileset_columns |-> 0, tileset_rows |-> 0]
    /\ instance_buffer = <<>>
    /\ tile_map = <<>>
    /\ background_instances = <<>>
    /\ tile_instances = <<>>
    /\ player_instances = <<>>
    /\ writes = <<>>
    /\ draws = <<>>
    /\ frame_result = "none"
    /\ composed_from = <<>>
    /\ frame_log = <<>>

\* InputHandler::new, GameState::new, a running process
InitGame ==
    /\ keys_pressed = {}
    /\ InitGameState
    /\ hold_time = 0
    /\ kick_finished = FALSE
    /\ last_event = [k \in AllKeys |-> "none"]
    /\ panicked = FALSE
    /\ stderr = {}
    /\ CacheEmpty

Init == InitGame /\ FrameIdle

Next == WindowEvent \/ MainEventsCleared

Spec == Init /\ [][Next]_vars

----------------------------------------------------------------------------
(* The walk scenario: from the initial state the right key is pressed and  *)
(* held, and nothing else, while updates deliver MaxHold time units.       *)

HoldRight ==
    /\ keys_pressed = {}
    /\ KeyboardInput("D", TRUE)
    /\ UNCHANGED <<hold_time, kick_finished, last_event, frame_vars,
                   process_vars, cache_vars>>

WalkUpdate ==
    \E delta_time \in DtSet :
        /\ keys_pressed = {"D"}
        /\ hold_time + delta_time <= MaxHold
        /\ GameStateUpdate(delta_time)
        /\ hold_time' = hold_time + delta_time
        /\ UNCHANGED <<keys_pressed, kick_finished, last_event, frame_vars,
                       process_vars, cache_vars>>

NextWalk == HoldRight \/ WalkUpdate

SpecWalk == Init /\ [][NextWalk]_vars

----------------------------------------------------------------------------
(* The input handler alone: any sequence of keyboard events, of the keys   *)
(* the update queries, of another key and of events without a key code.    *)

KeyEvent ==
    \E key \in AllKeys \cup {NoKey}, pressed \in BOOLEAN :
        /\ KeyboardInput(key, pressed)
        /\ last_event' = IF key = NoKey THEN last_event
                         ELSE [last_event EXCEPT
                                 ![key] = IF pressed THEN "pressed"
                                          ELSE "released"]
        /\ UNCHANGED <<hold_time, kick_finished, frame_vars, process_vars, cache_vars>>

NextInput == KeyEvent

SpecInput == Init /\ [][NextInput]_vars

----------------------------------------------------------------------------
(* Renderer data: instances, the tile map, the instance buffer.            *)
(*                                                                         *)
(* The f32 words of an instance are kept as exact integers: the entries of *)
(* a transform in position units (1.0 = Unit), sprite_size, uv_offset and  *)
(* uv_scale in units of 1/UvUnit, sprite_index as it is.                   *)

\* 1.0 in position units
Unit == 2000

\* 1.0 in texture-coordinate units: 1/24 (the player's sprite width), 1/8
\* and 1/3 are whole numbers of them
UvUnit == 24

\* size_of::<InstanceData>(): 16 + 1 + 1 + 2 + 2 + 2 f32 words, in bytes
InstanceSize == 96

\* size_of::<f32>(), the unit wgpu copies in (COPY_BUFFER_ALIGNMENT)
WordSize == 4

InstanceWords == InstanceSize \div WordSize

\* The number of instances Renderer::new allocates instance_buffer for.
instance_capacity == 4

\* instance_buffer.size(), in bytes
BufferSize == instance_capacity * InstanceSize

\* Renderer::create_transform_matrix(x, y, z, scale_x, scale_y)
create_transform_matrix(x, y, z, scale_x, scale_y) ==
    <<scale_x, 0, 0, 0,
      0, scale_y, 0, 0,
      0, 0, Unit, 0,
      x, y, z, Unit>>

InstanceData(transform, index, size, offset, scale) ==
    [transform |-> transform, sprite_index |-> index, _padding1 |-> 0,
     sprite_size |-> size, uv_offset |-> offset, uv_scale |-> scale]

\* bytemuck::cast_slice of one #[repr(C)] InstanceData: its words in field
\* order
instance_words(inst) ==
    inst.transform \o <<inst.sprite_index, inst._padding1>>
       \o inst.sprite_size \o inst.uv_offset \o inst.uv_scale

\* bytemuck::cast_slice(&[InstanceData]): the words of the instances, one
\* after the other
cast_slice(instances) ==
    [w \in 1..(Len(instances) * InstanceWords) |->
        instance_words(instances[((w - 1) \div InstanceWords) + 1])
                      [((w - 1) % InstanceWords) + 1]]

\* What the vertex stage fetches for instance k (from 0) of a draw whose
\* instance slice starts at byte offset: the attributes of the pipeline's
\* instance layout, at their byte offsets 0..48, 64, 68, 72, 80, 88
fetch_instance(buffer, offset, k) ==
    LET base == offset \div WordSize + k * InstanceWords
        word(i) == buffer[base + i]
    IN  [transform |-> [i \in 1..16 |-> word(i - 1)],
         sprite_index |-> word(16), _padding1 |-> word(17),
         sprite_size |-> <<word(18), word(19)>>,
         uv_offset |-> <<word(20), word(21)>>,
         uv_scale |-> <<word(22), word(23)>>]

\* The instances a draw of count instances fetches from the slice
fetch_instances(buffer, offset, count) ==
    [k \in 1..count |-> fetch_instance(buffer, offset, k - 1)]

\* the window of run: 800 x 600 physical pixels
WindowSize == [width |-> 800, height |-> 600]

\* a background image as the loop reads it: its pixel size
BackgroundTexture == [width |-> 800, height |-> 600]

\* Renderer::new as far as the loop reads its result: a texture and a bind
\* group for each of the n background layers, and the tileset's grid
NewRenderer(n, columns, rows) ==
    [background_textures |-> [i \in 1..n |-> BackgroundTexture],
     background_bind_groups |-> [i \in 1..n |-> <<"background", i>>],
     tileset_columns |-> columns,
     tileset_rows |-> rows]

\* run: the background instance of every background texture, the furthest
\* layer first
BackgroundInstances(rd) ==
    [j \in 1..Len(rd.background_textures) |->
        LET i == j - 1
            bg_texture == rd.background_textures[j]
            z == Unit - i * (Unit \div 5)
        IN  InstanceData(
                create_transform_matrix(
                    0, 0, z,
                    (WindowSize.width * Unit) \div bg_texture.width,
                    (WindowSize.height * Unit) \div bg_texture.height),
                0, <<UvUnit, UvUnit>>, <<0, 0>>, <<UvUnit, UvUnit>>)]

\* the tile index TileMap::new_ground gives every ground tile
ground_tile_index == 21

\* TileMap::new_ground, for a row of ground_length tiles (8 in the code)
new_ground(tile_width, tile_height, tileset_columns, tileset_rows, ground_length) ==
    LET total_ground_width == ground_length * tile_width
        start_x == (0 - total_ground_width) \div 2
    IN  [tiles |-> [j \in 1..ground_length |->
                      [tile_index |-> ground_tile_index,
                       position |-> <<start_x + (j - 1) * tile_width,
                                      (0 - Unit) + tile_height \div 2>>]],
         tile_width |-> tile_width,
         tile_height |-> tile_height,
         tileset_columns |-> tileset_columns,
         tileset_rows |-> tileset_rows]

\* what prepare_instances reads of the GameState (player_x is not part of
\* the state: the x entry of the player's transform is written as 0)
GameStateView ==
    [facing_right |-> facing_right, player_y |-> player_y,
     sprite_index |-> sprite_index]

\* prepare_instances, the instance of one tile
tile_instance(tm, rd, tile) ==
    LET tile_size_u == UvUnit \div rd.tileset_columns
        tile_size_v == UvUnit \div rd.tileset_rows
        u == (tile.tile_index % rd.tileset_columns) * tile_size_u
        v == (tile.tile_index \div rd.tileset_columns) * tile_size_v
    IN  InstanceData(
            create_transform_matrix(tile.position[1], tile.position[2], 0,
                                    tm.tile_width, tm.tile_height),
            0, <<0, 0>>, <<u, v>>, <<tile_size_u, tile_size_v>>)

\* Mutant of player_instance: the x scale does not follow facing_right
player_instance_no_mirror(gs) ==
    InstanceData(
        create_transform_matrix(0, gs.player_y, 0 - Unit \div 2,
                                (3 * Unit) \div 10, (3 * Unit) \div 10),
        gs.sprite_index, <<UvUnit \div 24, UvUnit>>, <<0, 0>>,
        <<UvUnit, UvUnit>>)

\* prepare_instances, the instance of the player
player_instance(gs) ==
    LET player_z == 0 - Unit \div 2
        scale_x  == IF gs.facing_right THEN (3 * Unit) \div 10
                    ELSE 0 - (3 * Unit) \div 10
        scale_y  == (3 * Unit) \div 10
    IN  InstanceData(
            create_transform_matrix(0, gs.player_y, player_z,
                                    scale_x, scale_y),
            gs.sprite_index, <<UvUnit \div 24, UvUnit>>, <<0, 0>>,
            <<UvUnit, UvUnit>>)

\* Mutant of prepare_instances: the tiles are walked from the last one
prepare_instances_reversed(tm, gs, rd) ==
    [tile_instances |->
        [j \in 1..Len(tm.tiles) |->
            tile_instance(tm, rd, tm.tiles[Len(tm.tiles) + 1 - j])],
     player_instances |-> <<player_instance(gs)>>]

\* prepare_instances: (tile_instances, player_instances)
prepare_instances(tm, gs, rd) ==
    [tile_instances |->
        [j \in 1..Len(tm.tiles) |-> tile_instance(tm, rd, tm.tiles[j])],
     player_instances |-> <<player_instance(gs)>>]

\* Renderer::new: the buffer as wgpu creates it, zeroed, a word per index
NewInstanceBuffer == [w \in 0..(BufferSize \div WordSize - 1) |-> 0]

\* a buffer allocated for capacity instances, zeroed
InstanceBufferFor(capacity) ==
    [w \in 0..(capacity * InstanceWords - 1) |-> 0]

\* buffer.size(), in bytes
buffer_size(buffer) == Cardinality(DOMAIN buffer) * WordSize

\* the state of a packing: the buffer, the (offset, end) byte ranges
\* written so far, and whether a write has panicked
Packing(buffer) == [buffer |-> buffer, writes |-> <<>>, panicked |-> FALSE]

\* Mutant of write_buffer: a write that does not fit is cut at the end of
\* the buffer and nothing is reported
write_buffer_clamped(pk, offset, data) ==
    LET first == offset \div WordSize
    IN  [pk EXCEPT
           !.buffer = [w \in DOMAIN pk.buffer |->
                         IF w >= first /\ w < first + Len(data)
                         THEN data[w - first + 1] ELSE pk.buffer[w]],
           !.writes = Append(pk.writes,
                             <<offset, offset + Len(data) * WordSize>>)]

\* queue.write_buffer(&instance_buffer, offset, data), as wgpu validates
\* it: a write that is misaligned or overruns the buffer is a validation
\* error, which without an error scope panics, and writes nothing; after a
\* panic nothing more runs.  The write is in place before the commands of
\* the next submit read the buffer.
write_buffer(pk, offset, data) ==
    LET first == offset \div WordSize
        fits  == /\ offset % WordSize = 0
                 /\ offset + Len(data) * WordSize <= buffer_size(pk.buffer)
    IN  IF pk.panicked THEN pk
        ELSE IF ~fits THEN [pk EXCEPT !.panicked = TRUE]
        ELSE [pk EXCEPT
                !.buffer = [w \in DOMAIN pk.buffer |->
                              IF w >= first /\ w < first + Len(data)
                              THEN data[w - first + 1] ELSE pk.buffer[w]],
                !.writes = Append(pk.writes,
                                  <<offset, offset + Len(data) * WordSize>>)]

\* Mutant of update_instance_buffers: the player's offset leaves out the
\* size of the tiles
update_instance_buffers_player_offset(buffer, background, tiles, player) ==
    LET background_instances_size == Len(background) * InstanceSize
        pk1 == IF background # <<>>
               THEN write_buffer(Packing(buffer), 0, cast_slice(background))
               ELSE Packing(buffer)
        pk2 == IF tiles # <<>>
               THEN write_buffer(pk1, background_instances_size,
                                 cast_slice(tiles))
               ELSE pk1
    IN  IF player # <<>>
        THEN write_buffer(pk2, background_instances_size, cast_slice(player))
        ELSE pk2

\* update_instance_buffers
update_instance_buffers(buffer, background, tiles, player) ==
    LET instance_size == InstanceSize
        background_instances_size == Len(background) * instance_size
        tile_instances_size == Len(tiles) * instance_size
        pk1 == IF background # <<>>
               THEN write_buffer(Packing(buffer), 0, cast_slice(background))
               ELSE Packing(buffer)
        pk2 == IF tiles # <<>>
               THEN write_buffer(pk1, background_instances_size,
                                 cast_slice(tiles))
               ELSE pk1
    IN  IF player # <<>>
        THEN write_buffer(pk2,
                          background_instances_size + tile_instances_size,
                          cast_slice(player))
        ELSE pk2

\* renderer.tileset_bind_group and renderer.texture_bind_group (the
\* player's sprite sheet), named like the background bind groups
tileset_bind_group == <<"tileset", 1>>

texture_bind_group == <<"texture", 1>>

\* a draw_indexed call: the texture bind group, the byte range of
\* instance_buffer bound as vertex buffer 1, the number of instances
DrawCall(bind_group, start, end, count) ==
    [bind_group |-> bind_group, slice |-> <<start, end>>,
     instances |-> count]

\* Mutant of tile_slice_offset: the backgrounds are not counted
tile_slice_offset_zero(rd) == 0

\* render_frame: background_instances_size, where the slice of the tiles
\* starts
tile_slice_offset(rd) == Len(rd.background_bind_groups) * InstanceSize

\* Mutant of draw_calls: the tiles are drawn although there are none
draw_calls_always_tiles(rd, tiles, player) ==
    LET background_instances_size == tile_slice_offset(rd)
        tile_instances_size == Len(tiles) * InstanceSize
    IN  [j \in 1..Len(rd.background_bind_groups) |->
            DrawCall(rd.background_bind_groups[j], (j - 1) * InstanceSize,
                     (j - 1) * InstanceSize + InstanceSize, 1)]
        \o <<DrawCall(tileset_bind_group, background_instances_size,
                      background_instances_size + tile_instances_size,
                      Len(tiles))>>
        \o (IF player # <<>>
            THEN <<DrawCall(texture_bind_group,
                            background_instances_size + tile_instances_size,
                            background_instances_size + tile_instances_size
                               + Len(player) * InstanceSize,
                            Len(player))>>
            ELSE <<>>)

\* render_frame: the draw calls of the render pass, in the order they are
\* encoded
draw_calls(rd, tiles, player) ==
    LET background_instances_size == tile_slice_offset(rd)
        tile_instances_size == Len(tiles) * InstanceSize
    IN  [j \in 1..Len(rd.background_bind_groups) |->
            LET offset == (j - 1) * InstanceSize
            IN  DrawCall(rd.background_bind_groups[j], offset,
                         offset + InstanceSize, 1)]
        \o (IF tiles # <<>>
            THEN <<DrawCall(tileset_bind_group, background_instances_size,
                            background_instances_size + tile_instances_size,
                            Len(tiles))>>
            ELSE <<>>)
        \o (IF player # <<>>
            THEN <<DrawCall(texture_bind_group,
                            background_instances_size + tile_instances_size,
                            background_instances_size + tile_instances_size
                               + Len(player) * InstanceSize,
                            Len(player))>>
            ELSE <<>>)

\* Mutant of render_frame: the surface error is unwrapped
render_frame_unwrap(acquired, rd, tiles, player) ==
    IF ~acquired
    THEN [draws |-> <<>>, frame_result |-> "panicked",
          diagnostics |-> {<<"Failed to acquire next swap chain texture">>}]
    ELSE [draws |-> draw_calls(rd, tiles, player),
          frame_result |-> "presented", diagnostics |-> {}]

\* render_frame; acquired is whether surface.get_current_texture()
\* returned a texture.  A frame is "presented" when its pass was
\* submitted and its texture presented, "skipped" when the function
\* returned before encoding anything.
render_frame(acquired, rd, tiles, player) ==
    IF ~acquired
    THEN [draws |-> <<>>, frame_result |-> "skipped",
          diagnostics |-> {<<"Failed to acquire next swap chain texture">>}]
    ELSE [draws |-> draw_calls(rd, tiles, player),
          frame_result |-> "presented", diagnostics |-> {}]

----------------------------------------------------------------------------
(* The animation state alone: set_action is requested with every name of  *)
(* the clip table and with a name that is not in it, and the clock ticks.  *)

\* an action name GameState::new does not register
UnregisteredAction == "fly"

\* a call of GameState::set_action
RequestAction(action) ==
    LET st  == AnimState(current_action, sprite_index, frame_time, is_kicking)
        st1 == set_action(st, action)
    IN  /\ current_action' = st1.current_action
        /\ sprite_index' = st1.sprite_index
        /\ frame_time' = st1.frame_time
        /\ is_kicking' = st1.is_kicking
        /\ stderr' = IF set_action_reports(st, action)
                     THEN stderr \cup {<<"Action not found", action>>}
                     ELSE stderr
        /\ UNCHANGED <<keys_pressed, player_y, player_velocity_x,
                       player_velocity_y, is_jumping, is_crouching,
                       is_running, facing_right, hold_time, kick_finished,
                       last_event, frame_vars, panicked, cache_vars>>

SetAction == \E action \in DOMAIN actions \cup {UnregisteredAction} :
                 RequestAction(action)

\* a call of GameState::update_animation
AnimationTick ==
    \E delta_time \in DtSet :
        LET st  == AnimState(current_action, sprite_index, frame_time,
                             is_kicking)
            st1 == update_animation(st, delta_time)
        IN  /\ current_action' = st1.current_action
            /\ sprite_index' = st1.sprite_index
            /\ frame_time' = st1.frame_time
            /\ is_kicking' = st1.is_kicking
            /\ UNCHANGED <<keys_pressed, player_y, player_velocity_x,
                           player_velocity_y, is_jumping, is_crouching,
                           is_running, facing_right, hold_time,
                           kick_finished, last_event, frame_vars,
                           process_vars, cache_vars>>

NextActions == SetAction \/ AnimationTick

SpecActions == Init /\ [][NextActions]_vars

----------------------------------------------------------------------------
(* The whole MainEventsCleared handler: update_game_state,                 *)
(* prepare_instances, update_instance_buffers, render_frame, one after the *)
(* other, for renderers of 0..MaxBackgrounds background layers and ground  *)
(* rows of 0..MaxTiles tiles.  Window events arrive between frames.        *)

\* the keys pressed and released in this specification
FrameKeys == {"A", "D"}

\* the (columns, rows) grids of the tileset: one that has the cell of
\* ground_tile_index and one that is too small for it
TilesetShapes == {<<8, 3>>, <<4, 3>>}

InitFrame ==
    /\ InitGame
    /\ pc = "events"
    /\ \E n \in 0..MaxBackgrounds, shape \in TilesetShapes,
          ground_length \in 0..MaxTiles :
          /\ renderer = NewRenderer(n, shape[1], shape[2])
          /\ tile_map = new_ground((3 * Unit) \div 10, (3 * Unit) \div 10,
                                   shape[1], shape[2], ground_length)
    /\ background_instances = BackgroundInstances(renderer)
    /\ instance_buffer = NewInstanceBuffer
    /\ tile_instances = <<>>
    /\ player_instances = <<>>
    /\ writes = <<>>
    /\ draws = <<>>
    /\ frame_result = "none"
    /\ composed_from = <<>>
    /\ frame_log = <<>>

\* Mutant of FrameWindowEvent: an event is handled wherever the frame is
FrameWindowEvent_any_time ==
    /\ \E key \in FrameKeys, pressed \in BOOLEAN : KeyboardInput(key, pressed)
    /\ UNCHANGED <<hold_time, kick_finished, last_event, frame_vars,
                   process_vars, cache_vars>>

\* Event::WindowEvent: the closure of event_loop.run handles one event per
\* call, so a window event arrives between two frames
FrameWindowEvent ==
    /\ pc = "events"
    /\ \E key \in FrameKeys, pressed \in BOOLEAN : KeyboardInput(key, pressed)
    /\ UNCHANGED <<hold_time, kick_finished, last_event, frame_vars,
                   process_vars, cache_vars>>

\* Event::MainEventsCleared: update_game_state
UpdateGameState ==
    /\ pc = "events"
    /\ \E delta_time \in DtSet : GameStateUpdate(delta_time)
    /\ pc' = "prepare_instances"
    /\ frame_log' = <<"update_game_state">>
    /\ UNCHANGED <<keys_pressed, hold_time, kick_finished, last_event,
                   renderer, instance_buffer, tile_map,
                   background_instances, tile_instances, player_instances,
                   writes, draws, frame_result, composed_from, process_vars, cache_vars>>

\* ... then prepare_instances
PrepareInstances ==
    /\ pc = "prepare_instances"
    /\ LET r == prepare_instances(tile_map, GameStateView, renderer)
       IN  /\ tile_instances' = r.tile_instances
           /\ player_instances' = r.player_instances
    /\ composed_from' = <<GameStateView>>
    /\ pc' = "update_instance_buffers"
    /\ frame_log' = Append(frame_log, "prepare_instances")
    /\ UNCHANGED <<keys_pressed, gs_vars, hold_time, kick_finished,
                   last_event, renderer, instance_buffer, tile_map,
                   background_instances, writes, draws, frame_result,
                   process_vars, cache_vars>>

\* ... then update_instance_buffers
UpdateInstanceBuffers ==
    /\ pc = "update_instance_buffers"
    /\ LET pk == update_instance_buffers(instance_buffer,
                                         background_instances,
                                         tile_instances, player_instances)
       IN  /\ instance_buffer' = pk.buffer
           /\ writes' = pk.writes
           /\ panicked' = pk.panicked
           /\ stderr' = IF pk.panicked
                        THEN stderr \cup {<<"wgpu error: Validation Error">>}
                        ELSE stderr
           /\ pc' = IF pk.panicked THEN "panicked" ELSE "render_frame"
    /\ frame_log' = Append(frame_log, "update_instance_buffers")
    /\ UNCHANGED <<keys_pressed, gs_vars, hold_time, kick_finished,
                   last_event, renderer, tile_map, background_instances,
                   tile_instances, player_instances, draws, frame_result,
                   composed_from, cache_vars>>

\* ... then render_frame, and the handler returns; acquired is what
\* surface.get_current_texture() answers
RenderFrameWith(acquired) ==
    /\ pc = "render_frame"
    /\ LET r == render_frame(acquired, renderer, tile_instances,
                             player_instances)
       IN  /\ draws' = r.draws
           /\ frame_result' = r.frame_result
           /\ stderr' = stderr \cup r.diagnostics
           /\ panicked' = (r.frame_result = "panicked")
           /\ pc' = IF r.frame_result = "panicked" THEN "panicked"
                    ELSE "events"
    /\ frame_log' = Append(frame_log, "render_frame")
    /\ UNCHANGED <<keys_pressed, gs_vars, hold_time, kick_finished,
                   last_event, renderer, instance_buffer, tile_map,
                   background_instances, tile_instances, player_instances,
                   writes, composed_from, cache_vars>>

RenderFrame == \E acquired \in BOOLEAN : RenderFrameWith(acquired)

NextFrame ==
    \/ FrameWindowEvent
    \/ UpdateGameState
    \/ PrepareInstances
    \/ UpdateInstanceBuffers
    \/ RenderFrame

SpecFrame == InitFrame /\ [][NextFrame]_vars

----------------------------------------------------------------------------
(* Properties *)

\* A step of GameState::update with this delta_time
UpdateStep(delta_time) ==
    keys_pressed' = keys_pressed /\ GameStateUpdate(delta_time)

\* The priority table of the action resolver, as the specification lists it
Priority(kicking, jumping, crouching, moving, running) ==
    CASE kicking                              -> "kick"
      [] ~kicking /\ jumping                  -> "jump"
      [] ~kicking /\ ~jumping /\ crouching /\ moving  -> "crouch_walk"
      [] ~kicking /\ ~jumping /\ crouching /\ ~moving -> "crouch_idle"
      [] ~kicking /\ ~jumping /\ ~crouching /\ moving /\ running  -> "run"
      [] ~kicking /\ ~jumping /\ ~crouching /\ moving /\ ~running -> "walk"
      [] OTHER                                -> "idle"

\* The action an update resolves from the held keys and the airborne flag
\* it leaves
Resolved ==
    Priority(is_key_pressed("E"), is_jumping', is_key_pressed("S"),
             is_key_pressed("A") \/ is_key_pressed("D"),
             is_key_pressed("LShift"))

\* The update completes the kick clip: kick was and stays the resolved
\* action, the clip stands on its last frame and a tick elapses
KickCompletes(delta_time) ==
    /\ is_key_pressed("E")
    /\ current_action = "kick"
    /\ sprite_index = end_frame("kick")
    /\ frame_time + delta_time >= animation_speed

SpriteBottom == player_y - SPRITE_HEIGHT \div 2

\* C1: sprite_index lies within [start_frame, end_frame] of the clip
\* registered for current_action, in the initial state and after every
\* update, for every delta_time and every combination of held keys.
SpriteInClip ==
    /\ current_action \in DOMAIN actions
    /\ start_frame(current_action) <= sprite_index
    /\ sprite_index <= end_frame(current_action)

\* C1 witness: the walk clip stands on its last frame, half a tick before
\* the update that wraps it.
SpriteInClipWitness ==
    /\ current_action = "walk"
    /\ sprite_index = end_frame("walk")
    /\ frame_time = 1

\* C2: every update leaves the action the priority table gives for the
\* flags kicking, jumping, crouching, moving, running (kick first, then
\* jump, then crouch, then move, else idle); the one exception is the
\* update that completes the kick clip, which hands over to idle.
ResolverPriority ==
    [][\A dt \in DtSet : UpdateStep(dt) =>
          /\ is_running' = is_key_pressed("LShift")
          /\ is_crouching' = is_key_pressed("S")
          /\ IF KickCompletes(dt)
             THEN current_action' = "idle"
             ELSE /\ current_action' = Resolved
                  /\ is_kicking' = is_key_pressed("E")]_vars

\* C2 witness: kick is the action of an airborne, crouching, running player.
ResolverPriorityWitness ==
    /\ current_action = "kick"
    /\ is_kicking /\ is_jumping /\ is_crouching /\ is_running
    /\ player_velocity_x # 0

\* C3: after an update the sprite's bottom edge is never below GROUND_LEVEL,
\* and an update that leaves the player on the ground leaves the bottom edge
\* exactly on GROUND_LEVEL with vy zero and is_jumping cleared.
GroundClampExact ==
    [][\A dt \in DtSet : UpdateStep(dt) =>
          /\ SpriteBottom' >= GROUND_LEVEL
          /\ ~is_jumping' => /\ SpriteBottom' = GROUND_LEVEL
                             /\ player_velocity_y' = 0]_vars

NoKickReentry ==
    [][\A dt \in DtSet : (UpdateStep(dt) /\ kick_finished) =>
          current_action' # "kick"]_vars

\* C6: an update of a looping clip whose accumulated frame_time reaches
\* k >= 2 ticks advances the clip by k frames, wrapping, and leaves the
\* remainder below one tick in frame_time.
CatchUp ==
    [][\A dt \in DtSet :
          LET t   == frame_time + dt
              k   == t \div animation_speed
              sf  == start_frame(current_action)
              len == end_frame(current_action) - sf + 1
          IN  (/\ UpdateStep(dt)
               /\ current_action' = current_action
               /\ current_action # "kick"
               /\ len > 1
               /\ k >= 2) =>
                 /\ sprite_index' = sf + ((sprite_index - sf + k) % len)
                 /\ frame_time' = t % animation_speed]_vars

\* C7: in the walk scenario, after a total hold time T delivered in any
\* split, the action is walk and sprite_index = 1 + (floor(T / tick) mod 10).
WalkFrameByTime ==
    (keys_pressed = {"D"} /\ hold_time > 0) =>
        /\ current_action = "walk"
        /\ sprite_index = 1 + ((hold_time \div animation_speed) % 10)

\* An update in which the resolver changes the action
ResolverChanges(delta_time) ==
    /\ UpdateStep(delta_time)
    /\ current_action' # current_action
    /\ ~KickCompletes(delta_time)

\* C8 as stated: an update whose resolved action differs from
\* current_action ends on the new clip's first frame, for every delta_time.
ActionChangeFirstFrame ==
    [][\A dt \in DtSet : ResolverChanges(dt) =>
          sprite_index' = start_frame(current_action')]_vars

\* C8 as amended: an update whose resolved action differs from
\* current_action restarts the clip and the accumulator before delta_time
\* is added: it ends on the new clip's first frame with frame_time =
\* delta_time when delta_time is below one tick, and with frame_time 0 on
\* the clip's second frame (its only frame for a static clip) otherwise.
ActionChangeRestartsClip ==
    [][\A dt \in DtSet : ResolverChanges(dt) =>
          LET sf == start_frame(current_action')
              ef == end_frame(current_action')
          IN  IF dt < animation_speed
              THEN sprite_index' = sf /\ frame_time' = dt
              ELSE /\ frame_time' = 0
                   /\ sprite_index' = IF sf = ef THEN sf ELSE sf + 1]_vars

\* C8 witness: a jump started by an update of MaxDt stands on the jump
\* clip's second frame.
ActionChangeWitness ==
    /\ current_action = "jump"
    /\ player_velocity_y = jump_force + gravity * MaxDt
    /\ sprite_index = start_frame("jump") + 1
    /\ frame_time = 0

\* C9: an update that resolves the action that is already current leaves
\* current_action, and, while no tick elapses, leaves sprite_index and keeps
\* the accumulated frame_time (frame_time grows by delta_time, no reset).
SameActionKeepsClock ==
    [][\A dt \in DtSet :
          (/\ UpdateStep(dt)
           /\ Resolved = current_action
           /\ frame_time + dt < animation_speed) =>
             /\ current_action' = current_action
             /\ sprite_index' = sprite_index
             /\ frame_time' = frame_time + dt]_vars

\* C9 witness: the walk clip in mid-cycle with half a tick accumulated.
SameActionWitness ==
    /\ current_action = "walk"
    /\ sprite_index = 5
    /\ frame_time = 1
    /\ keys_pressed = {"D"}

\* C10: an update turns is_jumping on only with Space held, is_jumping
\* false and S not held, and then vy is the jump impulse plus this update's
\* gravity; an update of an airborne player never re-applies the impulse:
\* vy only takes gravity, or the player lands with vy 0.
JumpOncePerContact ==
    [][\A dt \in DtSet : UpdateStep(dt) =>
          /\ (~is_jumping /\ is_jumping') =>
                /\ is_key_pressed("Space") /\ ~is_key_pressed("S")
                /\ player_velocity_y' = jump_force + gravity * dt
                /\ player_y' = player_y + player_velocity_y' * dt
          /\ (~is_jumping /\ ~is_jumping') =>
                player_y' = ground_y /\ player_velocity_y' = 0
          /\ (is_jumping /\ is_jumping') =>
                /\ player_velocity_y' = player_velocity_y + gravity * dt
                /\ player_y' = player_y + player_velocity_y' * dt
          /\ (is_jumping /\ ~is_jumping') =>
                player_y' = ground_y /\ player_velocity_y' = 0]_vars

\* C10 witness: an airborne player falling with Space held.
JumpOnceWitness ==
    /\ is_jumping
    /\ is_key_pressed("Space")
    /\ player_velocity_y < 0
    /\ player_y > ground_y

\* C11: once the player is airborne, every update that leaves it airborne
\* reports the action jump whatever the crouch, move and run keys are,
\* unless the kick key is held; in particular crouching in mid-air never
\* gives crouch_idle or crouch_walk.
AirborneReportsJump ==
    [][\A delta_time \in DtSet :
          (UpdateStep(delta_time) /\ is_jumping /\ is_jumping')
          => /\ ~is_key_pressed("E") => current_action' = "jump"
             /\ current_action' \notin {"crouch_idle", "crouch_walk"}]_vars

\* an airborne player reporting jump with crouch, a move key and run held
AirborneReportsJumpWitness ==
    /\ is_jumping
    /\ current_action = "jump"
    /\ is_crouching /\ is_running /\ player_velocity_x # 0
    /\ player_velocity_y < 0

\* C12: after an update facing_right is true when D is held (also when A
\* is held with it), false when only A is held, and what it was when
\* neither is held.
FacingTieBreak ==
    [][\A delta_time \in DtSet :
          UpdateStep(delta_time)
          => /\ is_key_pressed("D") => facing_right'
             /\ (is_key_pressed("A") /\ ~is_key_pressed("D")) => ~facing_right'
             /\ (~is_key_pressed("A") /\ ~is_key_pressed("D"))
                   => facing_right' = facing_right]_vars

\* both A and D were held in the last update (the player moves in place)
\* and the player faces right
FacingTieBreakWitness ==
    /\ {"A", "D"} \subseteq keys_pressed
    /\ current_action = "walk"
    /\ player_velocity_x = 0
    /\ facing_right

\* C19: after any sequence of keyboard events, is_key_pressed(k) is true
\* exactly when the most recent event carrying key code k was a press;
\* events of other keys and events without a key code leave the answer for
\* k as it was, and a repeated press or release changes nothing.
InputSnapshot ==
    \A k \in AllKeys : is_key_pressed(k) <=> last_event[k] = "pressed"

\* a key released after a press, another still held, a third never touched
InputSnapshotWitness ==
    /\ last_event["A"] = "released" /\ ~is_key_pressed("A")
    /\ last_event[OtherKey] = "pressed" /\ is_key_pressed(OtherKey)
    /\ last_event["D"] = "none" /\ ~is_key_pressed("D")

\* C18: requesting an action name that the clip table does not register
\* is a fatal configuration error: it is surfaced as a diagnostic and the
\* session aborts instead of going on with the previous action.
UnregisteredActionFatal ==
    [][RequestAction(UnregisteredAction)
       => (stderr' # {} /\ panicked')]_vars

\* the steps of the frame
PackStep == pc = "update_instance_buffers" /\ pc' # pc

PackedStep == pc = "update_instance_buffers" /\ pc' = "render_frame"

PresentStep == pc = "render_frame" /\ frame_result' = "presented" /\ pc' # pc

\* the bytes of a byte range <<start, end>>
Bytes(range) == range[1]..(range[2] - 1)

\* the numbers of instances of the three batches
N == Len(background_instances)

M == Len(tile_instances)

P == Len(player_instances)

\* C13: with N background, M tile and P player instances the packing
\* writes the background at byte 0, the tiles at N * sizeof(InstanceData)
\* and the player at (N + M) * sizeof(InstanceData); the ranges written
\* are contiguous, pairwise disjoint and cover (N + M + P) *
\* sizeof(InstanceData) bytes, and each batch's range reads back as the
\* records composed for it.
PackingLayout ==
    [][PackedStep
       => /\ writes' = SelectSeq(<<<<0, N * InstanceSize>>,
                                   <<N * InstanceSize,
                                     (N + M) * InstanceSize>>,
                                   <<(N + M) * InstanceSize,
                                     (N + M + P) * InstanceSize>>>>,
                                 LAMBDA r : r[1] < r[2])
          /\ writes'[1][1] = 0
          /\ writes'[Len(writes')][2] = (N + M + P) * InstanceSize
          /\ \A i \in 1..(Len(writes') - 1) :
                writes'[i][2] = writes'[i + 1][1]
          /\ \A i, j \in 1..Len(writes') :
                i # j => Bytes(writes'[i]) \cap Bytes(writes'[j]) = {}
          /\ fetch_instances(instance_buffer', 0, N) = background_instances
          /\ fetch_instances(instance_buffer', N * InstanceSize, M)
                = tile_instances
          /\ fetch_instances(instance_buffer', (N + M) * InstanceSize, P)
                = player_instances]_vars

\* a packing of one background, two tiles and the player: three writes
\* that fill the buffer
PackingLayoutWitness ==
    /\ pc = "render_frame"
    /\ N = 1 /\ M = 2 /\ P = 1
    /\ Len(writes) = 3
    /\ ~facing_right

\* the bytes the draws of a batch slice
SlicedBy(calls, groups) ==
    UNION {Bytes(calls[i].slice) :
             i \in {j \in 1..Len(calls) : calls[j].bind_group \in groups}}

BackgroundGroups == {<<"background", i>> : i \in 1..(MaxBackgrounds + 1)}

DrawOrder ==
    [][PresentStep
       => /\ [i \in 1..Len(draws') |-> draws'[i].bind_group]
             = renderer.background_bind_groups
                  \o (IF M > 0 THEN <<tileset_bind_group>> ELSE <<>>)
                  \o (IF P > 0 THEN <<texture_bind_group>> ELSE <<>>)
          /\ \A i \in 1..Len(draws') : draws'[i].instances > 0
          /\ \A i \in 1..Len(draws') :
                draws'[i].bind_group = tileset_bind_group
                   => draws'[i].instances = M]_vars

\* a presented frame without tiles: two background draws, then the player
DrawOrderWitness ==
    /\ frame_result = "presented"
    /\ M = 0 /\ P = 1
    /\ Len(draws) = 3
    /\ draws[3].bind_group = texture_bind_group

\* C17: when the surface texture cannot be acquired the frame is skipped:
\* nothing is drawn, submitted or presented, the failure is reported but
\* is not fatal, and the loop goes on to the next frame, which renders
\* again.
SurfaceFailureSkipsFrame ==
    [][RenderFrameWith(FALSE)
       => /\ draws' = <<>>
          /\ frame_result' = "skipped"
          /\ ~panicked'
          /\ stderr' # {}
          /\ pc' = "events"
          /\ instance_buffer' = instance_buffer]_vars

\* the frame after a skipped one has reached render_frame again
SurfaceFailureWitness ==
    /\ frame_result = "skipped"
    /\ draws = <<>>
    /\ pc = "render_frame"
    /\ ~panicked

ComposeStep == pc = "prepare_instances" /\ pc' # pc

\* the columns of the player's strip atlas
frame_count == 24

\* the player's sprite width, 0.3
sprite_width == (3 * Unit) \div 10

\* C21, as claimed: the player instance has x scale +sprite_width when
\* facing right and -sprite_width otherwise, sprite_index equal to the
\* player's current frame, and UV scale (1/frame_count, 1).
PlayerInstanceUvScale ==
    [][ComposeStep
       => LET p == player_instances'[1]
          IN  /\ p.transform[1] = IF facing_right THEN sprite_width
                                  ELSE 0 - sprite_width
              /\ p.sprite_index = sprite_index
              /\ p.uv_scale = <<UvUnit \div frame_count, UvUnit>>]_vars

\* C21, amended: x scale and sprite_index as claimed; the record carries
\* (1/frame_count, 1) as its sprite_size, while its UV offset is (0, 0)
\* and its UV scale is (1, 1).
PlayerInstanceRecord ==
    [][ComposeStep
       => LET p == player_instances'[1]
          IN  /\ p.transform[1] = IF facing_right THEN sprite_width
                                  ELSE 0 - sprite_width
              /\ p.transform[6] = sprite_width
              /\ p.sprite_index = sprite_index
              /\ p.sprite_size = <<UvUnit \div frame_count, UvUnit>>
              /\ p.uv_offset = <<0, 0>>
              /\ p.uv_scale = <<UvUnit, UvUnit>>]_vars

\* the composed instance of a player that faces left on a walk frame
PlayerInstanceWitness ==
    /\ pc = "update_instance_buffers"
    /\ ~facing_right
    /\ sprite_index > 1
    /\ player_instances[1].transform[1] < 0
    /\ player_instances[1].sprite_index = sprite_index

\* the functions of a whole frame, in the order of the handler
FullFrame == <<"update_game_state", "prepare_instances",
               "update_instance_buffers", "render_frame">>

\* C22: a frame runs the player update, the composition, the packing and
\* the rendering once each and in that order; no keyboard event is applied
\* between the update and the render of a frame; and the buffer writes of
\* a frame do not start before the draw calls of the frame before it were
\* submitted or skipped.
FrameSequence ==
    [][/\ pc' # pc
            => <<pc, pc'>> \in {<<"events", "prepare_instances">>,
                                <<"prepare_instances",
                                  "update_instance_buffers">>,
                                <<"update_instance_buffers", "render_frame">>,
                                <<"update_instance_buffers", "panicked">>,
                                <<"render_frame", "events">>}
       /\ (pc = "events" /\ pc' # pc)
            => /\ frame_log \in {<<>>, FullFrame}
               /\ frame_log = FullFrame
                     => frame_result \in {"presented", "skipped"}
               /\ frame_log' = <<"update_game_state">>
       /\ PackStep
            => frame_log = <<"update_game_state", "prepare_instances">>
       /\ (pc = "render_frame" /\ pc' # pc) => frame_log' = FullFrame
       /\ frame_log' # frame_log => pc' # pc
       /\ keys_pressed' # keys_pressed
            => (pc = "events" /\ pc' = "events")]_vars

\* the second frame, after a presented first one, is about to pack
FrameSequenceWitness ==
    /\ pc = "update_instance_buffers"
    /\ frame_log = <<"update_game_state", "prepare_instances">>
    /\ frame_result = "presented"
    /\ "A" \in keys_pressed

\* C23: the moving flag the resolver gets is true exactly when the
\* horizontal velocity computed in the update is not zero; with A and D
\* both held the velocity is zero and the action set is the one of a
\* player that does not move (idle or crouch_idle).
MovingIsVelocity ==
    [][\A delta_time \in DtSet :
          (UpdateStep(delta_time) /\ ~is_key_pressed("E"))
          => current_action'
               = Priority(FALSE, is_jumping', is_key_pressed("S"),
                          player_velocity_x' # 0,
                          is_key_pressed("LShift"))]_vars

\* C24: the UV offset composed for a tile is (tile_index mod columns,
\* tile_index div columns) scaled by (1/columns, 1/rows) and its UV scale
\* is (1/columns, 1/rows); a tile whose index is columns * rows or more,
\* a cell outside the atlas, is rejected as a configuration error and not
\* composed.
TileUvInAtlas ==
    [][ComposeStep
       => \A j \in 1..Len(tile_map.tiles) :
            LET tile == tile_map.tiles[j]
                columns == renderer.tileset_columns
                rows == renderer.tileset_rows
            IN  IF tile.tile_index < columns * rows
                THEN /\ tile_instances'[j].uv_offset
                          = <<(tile.tile_index % columns) * (UvUnit \div columns),
                              (tile.tile_index \div columns) * (UvUnit \div rows)>>
                     /\ tile_instances'[j].uv_scale
                          = <<UvUnit \div columns, UvUnit \div rows>>
                ELSE /\ tile_instances' = <<>>
                     /\ stderr' # stderr]_vars

\* C25: after every update is_jumping is true exactly when the player is
\* strictly above the ground, a player on the ground has no vertical
\* velocity, and a player on the ground that does not jump stays at
\* ground_y with vertical velocity 0 although gravity was applied.
AirborneIffAboveGround ==
    [][\A delta_time \in DtSet :
          UpdateStep(delta_time)
          => /\ is_jumping' <=> player_y' > ground_y
             /\ player_y' >= ground_y
             /\ player_y' = ground_y => player_velocity_y' = 0
             /\ (~is_jumping /\ ~jump_starts(is_key_pressed("Space"),
                                             is_jumping,
                                             is_key_pressed("S")))
                  => (player_y' = ground_y /\ player_velocity_y' = 0
                      /\ ~is_jumping')]_vars

\* a player on the ground with Space and S held: crouching, at rest, and
\* not jumping
AirborneIffAboveGroundWitness ==
    /\ ~is_jumping /\ player_y = ground_y /\ player_velocity_y = 0
    /\ {"Space", "S"} \subseteq keys_pressed
    /\ current_action = "crouch_idle"
    /\ is_crouching

\* C26: after every update the animation accumulator is at least 0 and
\* below one animation tick: no whole tick is left pending between updates.
AccumulatorBelowTick ==
    0 <= frame_time /\ frame_time < animation_speed

\* half a tick is pending after an update that delivered more than a tick
\* to a walk clip and a later one of half a tick
AccumulatorBelowTickWitness ==
    /\ frame_time = 1
    /\ current_action = "walk"
    /\ sprite_index = 3

\* C27: in every reachable state current_action is one of idle, walk,
\* run, jump, kick, crouch_walk, crouch_idle and a key of the clip table
\* (hurt is registered and never entered), and sprite_index is at most
\* 23, a column of the player's strip of frame_count columns.
ActionAndFrameValid ==
    /\ current_action \in {"idle", "walk", "run", "jump", "kick",
                            "crouch_walk", "crouch_idle"}
    /\ current_action \in DOMAIN actions
    /\ "hurt" \in DOMAIN actions
    /\ sprite_index >= 0
    /\ sprite_index <= frame_count - 1

\* the last column of the strip, on the last frame of crouch_walk
ActionAndFrameValidWitness ==
    /\ current_action = "crouch_walk"
    /\ sprite_index = frame_count - 1
    /\ is_crouching

\* C28: the kick lasts only while the kick key is held: when the key is
\* released before the clip has reached its end frame, the next update
\* leaves kick at once; the action is the one the other flags resolve to
\* and its clip starts from its start frame (from which an update of a
\* tick or more has advanced it once), so a kick that has started need
\* not play to its end.
KickOnlyWhileHeld ==
    [][\A delta_time \in DtSet :
          (UpdateStep(delta_time) /\ current_action = "kick"
             /\ sprite_index < end_frame("kick") /\ ~is_key_pressed("E"))
          => /\ current_action' = Resolved
             /\ current_action' # "kick"
             /\ ~is_kicking'
             /\ LET restarted == update_animation(
                                     AnimState(Resolved,
                                               start_frame(Resolved), 0,
                                               FALSE),
                                     delta_time)
                IN  /\ sprite_index' = restarted.sprite_index
                    /\ frame_time' = restarted.frame_time
             /\ delta_time < animation_speed
                   => (sprite_index' = start_frame(Resolved)
                       /\ frame_time' = delta_time)]_vars

\* a kick on its second frame whose key has just been released
KickOnlyWhileHeldWitness ==
    /\ current_action = "kick"
    /\ is_kicking
    /\ sprite_index = start_frame("kick") + 1
    /\ ~is_key_pressed("E")

\* ---------------------------------------------------------------------
\* Depth of the three batches, for scenes of up to MaxLayers backgrounds
\* ---------------------------------------------------------------------

\* the largest number of background layers of a scene
MaxLayers == 6

\* depth_compare: wgpu::CompareFunction::Less, a fragment of depth z is
\* drawn over a stored depth only if it is strictly nearer
depth_compare(z, stored) == z < stored

\* the z entry of an instance's transform
depth(instance) == instance.transform[15]

\* run with a renderer of up to MaxLayers backgrounds, an 8 x 3 tileset
\* and an instance buffer allocated for the whole scene
InitDepth ==
    /\ InitGame
    /\ pc = "events"
    /\ \E n \in 0..MaxLayers, ground_length \in 0..MaxTiles :
          /\ renderer = NewRenderer(n, 8, 3)
          /\ tile_map = new_ground((3 * Unit) \div 10, (3 * Unit) \div 10,
                                   8, 3, ground_length)
          /\ instance_buffer = InstanceBufferFor(n + ground_length + 1)
    /\ background_instances = BackgroundInstances(renderer)
    /\ tile_instances = <<>>
    /\ player_instances = <<>>
    /\ writes = <<>>
    /\ draws = <<>>
    /\ frame_result = "none"
    /\ composed_from = <<>>
    /\ frame_log = <<>>

SpecDepth == InitDepth /\ [][NextFrame]_vars

\* C29: once the frame's instances are composed, every background layer i
\* has depth 1.0 - 0.2 * i, and under the depth test every tile passes
\* against every background layer, the player passes against every
\* background layer, and the player passes against every tile
DepthAgreesWithDrawOrder ==
    pc = "update_instance_buffers" =>
        /\ \A j \in 1..Len(background_instances) :
              /\ depth(background_instances[j])
                     = Unit - (j - 1) * (Unit \div 5)
              /\ \A t \in 1..Len(tile_instances) :
                    depth_compare(depth(tile_instances[t]),
                                  depth(background_instances[j]))
              /\ \A p \in 1..Len(player_instances) :
                    depth_compare(depth(player_instances[p]),
                                  depth(background_instances[j]))
        /\ \A t \in 1..Len(tile_instances), p \in 1..Len(player_instances) :
              depth_compare(depth(player_instances[p]),
                            depth(tile_instances[t]))

\* ---------------------------------------------------------------------
\* load_texture, called from several threads
\* ---------------------------------------------------------------------

\* the largest number of load_texture calls of a run
MaxCalls == 4

\* what the calls of load_texture leave alone
game_vars == <<keys_pressed, gs_vars, hold_time, kick_finished, last_event,
               frame_vars, process_vars>>

\* Mutant of guard_after_miss: the guard is dropped once the lookup has
\* missed
guard_dropped_after_miss(t) == NoThread

\* the holder of the Mutex after the lookup missed: cache, the MutexGuard,
\* lives to the end of load_texture
guard_after_miss(t) == t

\* a thread calls load_texture(device, queue, path) and polls the future
Call(t, path) ==
    /\ loads[t].pc = "idle"
    /\ load_calls < MaxCalls
    /\ load_calls' = load_calls + 1
    /\ loads' = [loads EXCEPT ![t] = [pc |-> "lock", path |-> path,
                                      texture |-> NoTexture]]
    /\ UNCHANGED <<TEXTURE_CACHE, cache_lock, decoded, uploaded, game_vars>>

\* TEXTURE_CACHE.lock().unwrap(): blocks while another thread holds the
\* Mutex; panics when the Mutex is poisoned
Lock(t) ==
    /\ loads[t].pc = "lock"
    /\ cache_lock.holder = NoThread
    /\ IF cache_lock.poisoned
       THEN /\ loads' = [loads EXCEPT ![t].pc = "panicked"]
            /\ UNCHANGED cache_lock
       ELSE /\ loads' = [loads EXCEPT ![t].pc = "lookup"]
            /\ cache_lock' = [cache_lock EXCEPT !.holder = t]
    /\ UNCHANGED <<TEXTURE_CACHE, decoded, uploaded, load_calls, game_vars>>

\* cache.get(path): a hit returns the clone and drops the guard
Lookup(t) ==
    /\ loads[t].pc = "lookup"
    /\ IF TEXTURE_CACHE[loads[t].path] # NoTexture
       THEN /\ loads' = [loads EXCEPT
                           ![t].pc = "done",
                           ![t].texture = clone(TEXTURE_CACHE[loads[t].path])]
            /\ cache_lock' = [cache_lock EXCEPT !.holder = NoThread]
       ELSE /\ loads' = [loads EXCEPT ![t].pc = "decode"]
            /\ cache_lock' = [cache_lock EXCEPT
                                !.holder = guard_after_miss(t)]
    /\ UNCHANGED <<TEXTURE_CACHE, decoded, uploaded, load_calls, game_vars>>

\* image::open(path).expect(..): a missing file panics; the unwinding
\* drops the guard, which poisons the Mutex
Decode(t) ==
    /\ loads[t].pc = "decode"
    /\ decoded' = [decoded EXCEPT ![loads[t].path] = @ + 1]
    /\ IF ImageFiles[loads[t].path] = NoImage
       THEN /\ loads' = [loads EXCEPT ![t].pc = "panicked"]
            /\ cache_lock' = [holder |-> IF cache_lock.holder = t
                                         THEN NoThread
                                         ELSE cache_lock.holder,
                              poisoned |-> TRUE]
       ELSE /\ loads' = [loads EXCEPT ![t].pc = "upload"]
            /\ UNCHANGED cache_lock
    /\ UNCHANGED <<TEXTURE_CACHE, uploaded, load_calls, game_vars>>

\* device.create_texture, queue.write_texture, create_view, create_sampler
Upload(t) ==
    /\ loads[t].pc = "upload"
    /\ uploaded' = [uploaded EXCEPT ![loads[t].path] = @ + 1]
    /\ loads' = [loads EXCEPT
                   ![t].pc = "insert",
                   ![t].texture = Texture(created(uploaded, Paths) + 1,
                                          ImageFiles[loads[t].path])]
    /\ UNCHANGED <<TEXTURE_CACHE, cache_lock, decoded, load_calls, game_vars>>

\* cache.insert(path, texture.clone()); the texture is returned and the
\* guard dropped
Insert(t) ==
    /\ loads[t].pc = "insert"
    /\ TEXTURE_CACHE' = [TEXTURE_CACHE EXCEPT
                           ![loads[t].path] = clone(loads[t].texture)]
    /\ loads' = [loads EXCEPT ![t].pc = "done"]
    /\ cache_lock' = [cache_lock EXCEPT
                        !.holder = IF @ = t THEN NoThread ELSE @]
    /\ UNCHANGED <<decoded, uploaded, load_calls, game_vars>>

\* the caller has the texture and may call again
Return(t) ==
    /\ loads[t].pc = "done"
    /\ loads' = [loads EXCEPT ![t] = NoCall]
    /\ UNCHANGED <<TEXTURE_CACHE, cache_lock, decoded, uploaded, load_calls,
                   game_vars>>

NextCache ==
    \E t \in Threads :
        \/ \E path \in Paths : Call(t, path)
        \/ Lock(t)
        \/ Lookup(t)
        \/ Decode(t)
        \/ Upload(t)
        \/ Insert(t)
        \/ Return(t)

SpecCache == Init /\ [][NextCache]_vars

\* the steps of load_texture between a miss and the insert
Missed == {"decode", "upload", "insert"}

\* C30: each path is decoded at most once and uploaded at most once; a
\* cached path was decoded and uploaded exactly once and has the
\* dimensions of its file; a call that has returned has the texture the
\* cache holds for its path (the same GPU resources and dimensions); a
\* thread between the lock and the return holds the Mutex; and no two
\* threads are past a miss at once
TextureCachedOnce ==
    /\ \A path \in Paths :
          /\ decoded[path] <= 1
          /\ uploaded[path] <= 1
          /\ TEXTURE_CACHE[path] # NoTexture
                => /\ decoded[path] = 1
                   /\ uploaded[path] = 1
                   /\ <<TEXTURE_CACHE[path].width, TEXTURE_CACHE[path].height>>
                         = ImageFiles[path]
    /\ \A t \in Threads :
          /\ loads[t].pc = "done"
                => /\ loads[t].texture # NoTexture
                   /\ loads[t].texture = TEXTURE_CACHE[loads[t].path]
          /\ loads[t].pc \in {"lookup"} \cup Missed
                => cache_lock.holder = t
    /\ \A t1, t2 \in Threads :
          (t1 # t2 /\ loads[t1].pc \in Missed) => loads[t2].pc \notin Missed

\* two calls for one path have returned: one decoded and uploaded the
\* image, the other was answered from the cache
TextureCachedOnceWitness ==
    /\ loads["t1"].pc = "done"
    /\ loads["t2"].pc = "done"
    /\ loads["t1"].path = "tileset.png"
    /\ loads["t2"].path = "tileset.png"
    /\ decoded["tileset.png"] = 1
    /\ uploaded["tileset.png"] = 1
    /\ loads["t1"].texture = loads["t2"].texture
    /\ load_calls = 2

====
